---- MODULE Spec2Model ----
(***************************************************************************)
(* Arctic Slide: a penguin slides over a square grid of ice until it is   *)
(* blocked.  The repository holds three builds of the one component:      *)
(*   version 0  src/src/ArcticSlide.tsx            random walls,          *)
(*                                                 leaving the grid loses *)
(*   version 1  src/unnamed/part_001 lines 1-387   carved path + random   *)
(*                                                 obstacles off the path *)
(*   version 2  src/unnamed/part_001 lines 388-860 one carved corridor,   *)
(*                                                 leaving the grid stops *)
(* The model has the React state (level, status, moves), the state ref    *)
(* (pos, grid, isSliding, dir, fishCollected, totalFish), the browser's   *)
(* table of running setInterval timers and the status that the handleMove *)
(* in use has captured.                                                   *)
(***************************************************************************)
EXTENDS Integers, Sequences, FiniteSets, TLC

\* ------------------------------------------------------------- bounds
MaxLevel == 10      \* the level buttons stop here
MaxLevelWalls == 3  \* and here in build 0
MaxMoves == 2       \* accepted moves per initialisation, builds 0 and 1
MaxMovesCorridor == 5 \* accepted moves per initialisation, build 2
MaxTimers == 2      \* setInterval timers running at once
MaxSalt == 3        \* value tables of Math.sin beside the IEEE one (SpecGen)

\* -------------------------------------------------- program constants
BaseSize == 6
LevelsPerSize == 10
SizeCap == 15
SeedFactor == 12345
RndRes == 42        \* resolution of a pseudo-random value: lcm(2, 6, 7)

Versions == {0, 1, 2}
\* the builds whose game is modelled: build 1 is build 0 with another generator
GameVersions == {0, 2}

\* handleMove's arguments: the arrow keys and the canvas click
Dirs == { [x |-> 0, y |-> -1], [x |-> 0, y |-> 1],
          [x |-> -1, y |-> 0], [x |-> 1, y |-> 0] }
NoDir == [x |-> 0, y |-> 0]

VARIABLES
  version,        \* which build runs
  salt,           \* which value table Math.sin has
  level, status, moves,                                  \* useState
  closureStatus,  \* the status in the closure of the handleMove in use
  pos, grid, isSliding, dir, fishCollected, totalFish,   \* state.current
  timers,         \* the running setInterval timers, by direction
  lastClick       \* "retry" when the last event handled was a retry click

game == << version, salt, level, status, closureStatus, moves, pos, grid,
           isSliding, dir, fishCollected, totalFish, timers >>
vars == << game, lastClick >>

Min(a, b) == IF a < b THEN a ELSE b
Max(a, b) == IF a > b THEN a ELSE b

\* ---------------------------------------------------------- generator
\* Math.abs(Math.sin(s) * 10000 % 1) in units of 1/RndRes, rounded down, for
\* s = level * 12345 + j: row level + 1, column j + 1.
SinTable ==
   << 
      << 0, 29, 40,  8,  1, 10,  6, 36, 24,  7,  8, 37, 30, 28,  3, 36,  1, 40, 36, 32, 19, 23, 21,  8, 32, 21, 24, 31,  2, 14, 13, 15, 11,  4, 34, 34, 33, 16, 28, 40,  5,  9>>,
      <<30, 28, 34, 21, 15, 22, 11, 39, 18, 33,  9, 13, 38, 30, 40,  9,  5,  6, 38, 18,  2, 21, 19,  6, 21, 32,  5, 39, 41, 19, 38, 29, 33,  8, 18, 20, 19, 25, 41, 33,  6,  5>>,
      <<35, 16, 18, 21, 32, 34,  5, 19, 25, 34, 21, 31, 19,  6, 37, 33, 24, 27, 36, 15, 23, 26,  2,  7, 16, 29,  0,  8, 32, 14, 12,  1, 41, 15, 41,  0, 37, 12, 17,  6, 38, 26>>,
      << 3,  5, 27, 22, 38, 25, 24, 39, 35, 30, 28, 20, 22, 26, 20, 22, 28,  5,  5, 27, 19, 20, 26, 41, 11,  6, 20, 11, 25, 37,  5, 11, 22, 34, 19, 33,  8, 17, 17, 20, 14,  0>>,
      <<27,  2, 10, 28,  1,  5, 24, 37, 17, 38, 40, 29,  5, 12, 35, 12, 13, 15, 31, 24, 22, 29, 13, 26,  0, 41, 38, 21, 35, 25, 27, 16, 34, 31,  9, 15, 21, 28, 21,  7,  6, 23>>,
      <<15, 24, 31,  4, 17,  0, 35, 23, 18, 39, 15, 11, 28, 18, 12, 11,  0, 21, 39, 23, 20, 38,  5,  2,  7, 38, 37, 16, 17, 32, 26, 32,  0, 38, 41,  5, 38,  3,  9, 20, 41, 26>>,
      <<38, 34,  0, 26,  0, 29, 19, 10,  9, 32, 29, 25, 21, 21, 28, 20, 25, 14, 36, 22, 41, 21,  1, 28, 40, 37, 15,  3, 12,  2, 20, 23, 26,  1, 21,  0, 16,  0, 38,  9, 29, 25>>,
      <<14,  7, 10, 19, 12, 23,  2, 18, 16, 36, 30,  1,  4, 22,  1, 35, 27, 34, 40, 14,  4, 16, 30, 27,  2, 12, 23, 32, 16,  5,  6, 23,  6, 12, 34, 17, 23, 39, 28,  7, 24,  2>>,
      <<29, 13,  3,  7, 30, 18, 40, 10, 30,  2, 33, 24, 31,  9, 27,  7, 17,  6, 30,  6,  4, 21, 37, 37,  8, 23, 17, 17, 11, 15,  9, 35, 18,  4, 19,  8, 26,  4, 13, 33,  5, 13>>,
      <<33, 40, 36, 18, 26, 24,  0, 22, 34, 15, 14, 13, 12, 30, 15,  2, 18, 29, 17,  1,  5,  1, 36,  4, 22, 38, 10, 21,  9, 41, 23, 21, 35,  4, 15, 39, 11, 32,  4, 26, 13, 37>>,
      <<20, 29,  5, 20, 34, 16, 35, 39, 20,  0, 31, 37, 20, 37, 12, 12, 39,  5, 23, 18,  1, 41, 40, 17, 26, 35, 27,  1,  2, 23,  1, 38, 28,  0, 30, 13, 24, 15, 34,  2, 34, 22>>,
      <<40, 32, 16, 26, 27, 40,  5, 33, 28, 18, 31,  4, 33, 21, 29, 12, 39, 31,  5, 12,  0,  0, 19, 25, 14,  4, 19, 17,  6,  1, 24, 18, 32,  4,  3, 26,  8, 39, 21, 39,  1, 14>>,
      <<36, 23,  8, 27, 10, 40,  0, 39, 26,  2, 27, 12, 19, 40,  1, 41, 10, 33, 12, 31, 37, 12, 31, 29, 37, 20, 40, 13,  7, 10, 17, 29, 16, 40, 20, 31, 13,  7, 18, 13,  7, 19>>
   >>

\* The magnitude of pseudoRandom(s), in units of 1/RndRes.  Math.sin is
\* implementation-approximated: table 0 is the IEEE one, the others stand
\* for other value tables.  Every caller takes Math.abs of the value.
pseudoRandom(tb, s) ==
  LET l == s \div SeedFactor
      j == s % SeedFactor
  IN  IF tb = 0
        THEN SinTable[l + 1][j + 1]
        ELSE (j * j * (tb + 2) + j * (5 * l + 3) + 11 * l + 7 * tb) % RndRes

\* Math.floor(r * n) for r = q / RndRes
FloorMul(q, n) == (q * n) \div RndRes

LevelSize(lvl) == Min(BaseSize + lvl \div LevelsPerSize, SizeCap)

FilledWater(size, tile) == [yy \in 0 .. size - 1 |-> [xx \in 0 .. size - 1 |-> "~"]]
Filled(size, tile) == [yy \in 0 .. size - 1 |-> [xx \in 0 .. size - 1 |-> tile]]

SetTile(g, xx, yy, tile) == [g EXCEPT ![yy][xx] = tile]

InGrid(size, xx, yy) == xx >= 0 /\ xx < size /\ yy >= 0 /\ yy < size
\* nextRandom() with the local counter at rndIndex
nextRandom(tb, seed, rndIndex) == pseudoRandom(tb, seed + rndIndex)

\* --- version 0: random walls
RECURSIVE RandomWalls(_, _, _, _, _)
RandomWalls(tb, g, size, seed, i) ==
  IF i >= size * 2 THEN g
  ELSE LET rx == FloorMul(pseudoRandom(tb, seed + i), size)
           ry == FloorMul(pseudoRandom(tb, seed + i * 2), size)
       IN  RandomWalls(tb, IF g[ry][rx] = "." THEN SetTile(g, rx, ry, "X") ELSE g,
                           size, seed, i + 1)

getLevelGrid0(tb, lvl) ==
  LET size == LevelSize(lvl)
      g    == RandomWalls(tb, Filled(size, "."), size, lvl * SeedFactor, 0)
  IN  SetTile(SetTile(g, 0, 0, "P"), size - 1, size - 1, "G")

\* --- version 1: a path carved backward from the goal, obstacles off it
RECURSIVE CarveBack(_, _, _, _, _, _)
CarveBack(tb, xx, yy, seed, rndIndex, path) ==
  IF xx = 0 /\ yy = 0 THEN [path |-> path, rndIndex |-> rndIndex]
  ELSE LET dirs   == (IF xx > 0 THEN << [x |-> -1, y |-> 0] >> ELSE << >>)
                     \o (IF yy > 0 THEN << [x |-> 0, y |-> -1] >> ELSE << >>)
           choice == FloorMul(nextRandom(tb, seed, rndIndex), Len(dirs))
           d      == dirs[choice + 1]
       IN  CarveBack(tb, xx + d.x, yy + d.y, seed, rndIndex + 1,
                     Append(path, [x |-> xx + d.x, y |-> yy + d.y]))

\* the backstopper wall one step beyond the goal (last), coming from prev
Backstopper(g, size, last, prev) ==
  LET backX == last.x + (last.x - prev.x)
      backY == last.y + (last.y - prev.y)
  IN  IF InGrid(size, backX, backY) /\ g[backY][backX] = "."
        THEN SetTile(g, backX, backY, "X")
        ELSE g

NeverOnPath(path, xx, yy) == FALSE
isOnPath(path, xx, yy) == \E k \in 1 .. Len(path) : path[k].x = xx /\ path[k].y = yy

RECURSIVE Obstacles(_, _, _, _, _, _, _)
Obstacles(tb, g, size, seed, path, rndIndex, i) ==
  IF i >= size * 2 THEN g
  ELSE LET rx == FloorMul(nextRandom(tb, seed, rndIndex), size)
           ry == FloorMul(nextRandom(tb, seed, rndIndex + 1), size)
       IN  Obstacles(tb, IF ~isOnPath(path, rx, ry) /\ g[ry][rx] = "."
                       THEN SetTile(g, rx, ry, "X") ELSE g,
                     size, seed, path, rndIndex + 2, i + 1)

carve1(tb, lvl) ==
  LET size == LevelSize(lvl)
  IN  CarveBack(tb, size - 1, size - 1, lvl * SeedFactor, 0,
                << [x |-> size - 1, y |-> size - 1] >>)

getLevelGrid1(tb, lvl) ==
  LET size == LevelSize(lvl)
      c    == carve1(tb, lvl)
      g1   == SetTile(SetTile(Filled(size, "."), 0, 0, "P"), size - 1, size - 1, "G")
      g2   == IF Len(c.path) >= 2
                THEN Backstopper(g1, size, c.path[1], c.path[2])
                ELSE g1
  IN  Obstacles(tb, g2, size, lvl * SeedFactor, c.path, c.rndIndex, 0)

\* --- version 2: everything walled except one carved corridor
RECURSIVE CarveForward(_, _, _, _, _, _, _)
CarveForward(tb, xx, yy, size, seed, rndIndex, path) ==
  IF xx = size - 1 /\ yy = size - 1 THEN path
  ELSE LET dirs   == (IF xx < size - 1 THEN << [x |-> 1, y |-> 0] >> ELSE << >>)
                     \o (IF yy < size - 1 THEN << [x |-> 0, y |-> 1] >> ELSE << >>)
           d      == dirs[FloorMul(nextRandom(tb, seed, rndIndex), Len(dirs)) + 1]
       IN  CarveForward(tb, xx + d.x, yy + d.y, size, seed, rndIndex + 1,
                        Append(path, [x |-> xx + d.x, y |-> yy + d.y]))

RECURSIVE CarveCorridor(_, _, _)
CarveCorridor(g, path, k) ==
  IF k > Len(path) THEN g
  ELSE CarveCorridor(SetTile(g, path[k].x, path[k].y, "."), path, k + 1)

carve2(tb, lvl) ==
  CarveForward(tb, 0, 0, LevelSize(lvl), lvl * SeedFactor, 0, << [x |-> 0, y |-> 0] >>)

getLevelGrid2(tb, lvl) ==
  LET size == LevelSize(lvl)
      path == carve2(tb, lvl)
      g1   == CarveCorridor(Filled(size, "X"), path, 1)
      g2   == SetTile(SetTile(g1, 0, 0, "P"), size - 1, size - 1, "G")
  IN  IF Len(path) >= 2
        THEN Backstopper(g2, size, path[Len(path)], path[Len(path) - 1])
        ELSE g2

\* getLevelGrid(level) of build v, with Math.sin's value table tb
generate(v, tb, lvl) ==
  CASE v = 0 -> getLevelGrid0(tb, lvl)
    [] v = 1 -> getLevelGrid1(tb, lvl)
    [] v = 2 -> getLevelGrid2(tb, lvl)

\* the local array path of the carving generators (builds 1 and 2)
carved(v, tb, lvl) == IF v = 1 THEN carve1(tb, lvl).path ELSE carve2(tb, lvl)

\* the generator is a function of the level: its results, computed once
Layouts ==
  [v \in Versions |-> [tb \in 0 .. MaxSalt |-> [lvl \in 0 .. MaxLevel |->
     generate(v, tb, lvl)]]]
Paths ==
  [v \in {1, 2} |-> [tb \in 0 .. MaxSalt |-> [lvl \in 0 .. MaxLevel |->
     carved(v, tb, lvl)]]]

getLevelGrid(lvl) == Layouts[version][salt][lvl]
carvedPath(lvl) == Paths[version][salt][lvl]

\* -------------------------------------------------------- game state
Bag0 == [d \in Dirs |-> 0]
Running(bag) == bag[[x |-> 0, y |-> -1]] + bag[[x |-> 0, y |-> 1]]
                + bag[[x |-> -1, y |-> 0]] + bag[[x |-> 1, y |-> 0]]

Cells(g) == { c \in (DOMAIN g) \X (DOMAIN g) : TRUE }

\* the scan of the initialisation: the start tile (the last 'P' in row order,
\* (0,0) when there is none) and the number of goal tiles
StartOf(g) ==
  LET ps == { c \in Cells(g) : g[c[1]][c[2]] = "P" }
  IN  IF ps = {} THEN [x |-> 0, y |-> 0]
      ELSE LET c == CHOOSE c \in ps :
                      \A e \in ps : e[1] < c[1] \/ (e[1] = c[1] /\ e[2] <= c[2])
           IN  [x |-> c[2], y |-> c[1]]

FishCount(g) == Cardinality({ c \in Cells(g) : g[c[1]][c[2]] = "G" })

\* an initialisation that forgets setStatus('playing')
initializeLevelKeepStatus(lvl) ==
  LET g == getLevelGrid(lvl)
  IN  /\ pos' = StartOf(g)
      /\ grid' = g
      /\ isSliding' = FALSE
      /\ dir' = NoDir
      /\ fishCollected' = 0
      /\ totalFish' = FishCount(g)
      /\ moves' = 0
      /\ UNCHANGED << status, closureStatus >>
      /\ UNCHANGED timers

\* an initialisation that forgets setMoves(0)
initializeLevelKeepMoves(lvl) ==
  LET g == getLevelGrid(lvl)
  IN  /\ pos' = StartOf(g)
      /\ grid' = g
      /\ isSliding' = FALSE
      /\ dir' = NoDir
      /\ fishCollected' = 0
      /\ totalFish' = FishCount(g)
      /\ status' = "playing"
      /\ closureStatus' = "playing"
      /\ UNCHANGED moves
      /\ UNCHANGED timers

\* an initialisation that leaves isSliding as it is
initializeLevelKeepSliding(lvl) ==
  LET g == getLevelGrid(lvl)
  IN  /\ pos' = StartOf(g)
      /\ grid' = g
      /\ dir' = NoDir
      /\ fishCollected' = 0
      /\ totalFish' = FishCount(g)
      /\ moves' = 0
      /\ status' = "playing"
      /\ closureStatus' = "playing"
      /\ UNCHANGED isSliding
      /\ UNCHANGED timers

\* The initialisation effect / initializeLevel(lvl).  It replaces state.current
\* and clears no timer: the timers that run keep running.  It runs in a click,
\* whose updates React renders before the click returns.
initializeLevel(lvl) ==
  LET g == getLevelGrid(lvl)
  IN  /\ pos' = StartOf(g)
      /\ grid' = g
      /\ isSliding' = FALSE
      /\ dir' = NoDir
      /\ fishCollected' = 0
      /\ totalFish' = FishCount(g)
      /\ moves' = 0
      /\ status' = "playing"
      /\ closureStatus' = "playing"
      /\ UNCHANGED timers

\* setLevel(l): React skips the render, and with it the effect on [level], when
\* the value is the one it has.
setLevel(l) ==
  IF l = level
    THEN UNCHANGED game
    ELSE /\ level' = l
         /\ initializeLevel(l)
         /\ UNCHANGED << version, salt >>

Init ==
  /\ version \in GameVersions
  /\ salt = 0
  /\ level = 0
  /\ status = "playing"
  /\ closureStatus = "playing"
  /\ moves = 0
  /\ pos = StartOf(getLevelGrid(0))
  /\ grid = getLevelGrid(0)
  /\ isSliding = FALSE
  /\ dir = NoDir
  /\ fishCollected = 0
  /\ totalFish = FishCount(getLevelGrid(0))
  /\ timers = Bag0
  /\ lastClick = "none"

\* ChevronLeft
PrevLevel == setLevel(Max(0, level - 1)) /\ lastClick' = "none"

\* the highest level the model enters
LevelCap == IF version = 0 THEN MaxLevelWalls ELSE MaxLevel

\* ChevronRight
NextLevel == level < LevelCap /\ setLevel(level + 1) /\ lastClick' = "none"

\* NEXT LEVEL of the won overlay, there once React has rendered status won
NextLevelOverlay ==
  /\ closureStatus = "won"
  /\ level < LevelCap
  /\ setLevel(level + 1)
  /\ lastClick' = "none"

\* RETRY of the lost overlay: setLevel(level) in every version
RetryOverlay == closureStatus = "lost" /\ setLevel(level) /\ lastClick' = "retry"

\* when retrying we just re-run initializer for current level
handleRetry == initializeLevel(level) /\ UNCHANGED << version, salt, level >>

\* the refresh button of the HUD: setLevel(level), handleRetry in version 2
Refresh ==
  /\ IF version = 2 THEN handleRetry ELSE setLevel(level)
  /\ lastClick' = "retry"

\* handleMove(dx, dy), the part that runs at the call.  A call while a slide
\* runs or the game is over returns at once.  status is the value of the
\* render that made this handleMove (useCallback on [status]).
handleMove(d) ==
  IF isSliding \/ closureStatus # "playing"
    THEN UNCHANGED game
    ELSE /\ moves < (IF version = 2 THEN MaxMovesCorridor ELSE MaxMoves)
         /\ Running(timers) < MaxTimers
         /\ isSliding' = TRUE
         /\ dir' = d
         /\ moves' = moves + 1
         /\ timers' = [timers EXCEPT ![d] = @ + 1]
         /\ UNCHANGED << version, salt, level, status, closureStatus, pos, grid,
                         fishCollected, totalFish >>

\* the bounds test of the timer callback
OutOfBounds(g, nextX, nextY) ==
  \/ nextY < 0
  \/ nextY >= Cardinality(DOMAIN g)
  \/ nextX < 0
  \/ nextX >= Cardinality(DOMAIN g[0])

\* what leaving the grid does to status: lost, or nothing in version 2
BoundsStatusLost(st) == "lost"
BoundsStatusKeep(st) == st
BoundsStatus(st) == IF version = 2 THEN st ELSE "lost"

IsWallOrIce(tile) == tile \in {"X", "."}
NeverWall(tile) == FALSE
IsWall(tile) == tile = "X"
IceIsWater(tile) == tile \in {"~", "."}
IsWater(tile) == tile = "~"
NeverGoal(tile) == FALSE
IsGoal(tile) == tile = "G"

\* the last fish is in
AllCollectedStrict(fc, tf) == fc > tf
AllCollected(fc, tf) == fc >= tf

\* One run of the setInterval callback of a slide in direction d on
\* s = state.current with status: the new values, and whether the callback
\* cleared its own timer.
slideStep(s, d) ==
  LET nextX == s.pos.x + d.x
      nextY == s.pos.y + d.y
  IN  IF OutOfBounds(s.grid, nextX, nextY)
        THEN [s EXCEPT !.status = BoundsStatus(s.status),
                       !.isSliding = FALSE, !.cleared = TRUE]
      ELSE LET nextTile == s.grid[nextY][nextX]
               next     == [x |-> nextX, y |-> nextY]
           IN  IF IsWall(nextTile)
                 THEN [s EXCEPT !.isSliding = FALSE, !.cleared = TRUE]
               ELSE IF IsWater(nextTile)
                 THEN [s EXCEPT !.pos = next, !.status = "lost", !.cleared = TRUE]
               ELSE IF IsGoal(nextTile)
                 THEN LET won == AllCollected(s.fishCollected + 1, s.totalFish)
                      IN  [s EXCEPT !.pos = next,
                                    !.grid = SetTile(s.grid, nextX, nextY, "."),
                                    !.fishCollected = @ + 1,
                                    !.status = IF won THEN "won" ELSE @,
                                    !.cleared = won]
               ELSE [s EXCEPT !.pos = next]

Current ==
  [pos |-> pos, grid |-> grid, isSliding |-> isSliding,
   fishCollected |-> fishCollected, totalFish |-> totalFish,
   status |-> status, cleared |-> FALSE]

\* a tick of a running timer of direction d
tick(d) ==
  /\ timers[d] > 0
  /\ LET r == slideStep(Current, d)
         n == IF r.cleared THEN 1 ELSE 0
     IN  /\ pos' = r.pos
         /\ grid' = r.grid
         /\ isSliding' = r.isSliding
         /\ fishCollected' = r.fishCollected
         /\ status' = r.status
         /\ timers' = [timers EXCEPT ![d] = @ - n]
  /\ UNCHANGED << version, salt, level, closureStatus, moves, dir, totalFish >>

\* React renders the status a timer callback has set, and the keyboard effect
\* subscribes the handleMove of that render
Render ==
  /\ closureStatus # status
  /\ closureStatus' = status
  /\ lastClick' = "none"
  /\ UNCHANGED << version, salt, level, status, moves, pos, grid, isSliding, dir,
                  fishCollected, totalFish, timers >>

KeyDown(d) == handleMove(d) /\ lastClick' = "none"
Tick(d) == tick(d) /\ lastClick' = "none"

Next ==
  \/ \E d \in Dirs : KeyDown(d)
  \/ \E d \in Dirs : Tick(d)
  \/ Render
  \/ PrevLevel
  \/ NextLevel
  \/ NextLevelOverlay
  \/ RetryOverlay
  \/ Refresh

Spec == Init /\ [][Next]_vars

\* every timer tick and every render runs sooner or later
FairSpec ==
  /\ Spec
  /\ \A d \in Dirs : WF_vars(Tick(d))
  /\ WF_vars(Render)

\* the generator applied to every level under every value table
GenInit ==
  /\ version \in Versions
  /\ salt \in 0 .. MaxSalt
  /\ level \in 0 .. MaxLevel
  /\ status = "playing"
  /\ closureStatus = "playing"
  /\ moves = 0
  /\ pos = StartOf(getLevelGrid(level))
  /\ grid = getLevelGrid(level)
  /\ isSliding = FALSE
  /\ dir = NoDir
  /\ fishCollected = 0
  /\ totalFish = FishCount(getLevelGrid(level))
  /\ timers = Bag0
  /\ lastClick = "none"

GenNext == PrevLevel \/ NextLevel \/ Refresh

SpecGen == GenInit /\ [][GenNext]_vars

\* ------------------------------------------------------------- claims
TimersRunning == Running(timers)
GridSize == Cardinality(DOMAIN grid)
Goal == [x |-> GridSize - 1, y |-> GridSize - 1]
Start == [x |-> 0, y |-> 0]
Step(p, d) == [x |-> p.x + d.x, y |-> p.y + d.y]
TileOf(g, p) == g[p.y][p.x]
Inside(g, p) == InGrid(Cardinality(DOMAIN g), p.x, p.y)
\* an in-grid floor or start cell
FreeCell(g, p) == Inside(g, p) /\ TileOf(g, p) \in {".", "P"}
TimerCleared == TimersRunning' = TimersRunning - 1

\* C1: every tick of a slide in direction d moves the penguin one cell in d or
\* ends the slide; a slide ends only when the next cell in d is a wall, outside
\* the grid, water, or the goal whose fish was the last; and where a slide ends
\* the neighbour in d is no in-grid floor or start cell.
C1_SlideUntilBlocked ==
  [][\A d \in Dirs : Tick(d) =>
       LET next     == Step(pos, d)
           blocked  == ~Inside(grid, next) \/ TileOf(grid, next) \in {"X", "~"}
           lastGoal == /\ Inside(grid, next)
                       /\ TileOf(grid, next) = "G"
                       /\ fishCollected' >= totalFish
       IN  /\ pos' = next \/ (TimerCleared /\ pos' = pos)
           /\ TimerCleared => blocked \/ lastGoal
           /\ ~TimerCleared => pos' = next /\ Inside(grid, next)
           /\ TimerCleared => ~FreeCell(grid', Step(pos', d))
    ]_vars

\* a slide that covered ground has just been stopped by a wall
C1_Witness ==
  /\ TimersRunning = 0
  /\ status = "playing"
  /\ ~isSliding
  /\ dir \in Dirs
  /\ pos # Start
  /\ Inside(grid, Step(pos, dir))
  /\ TileOf(grid, Step(pos, dir)) = "X"
\* C2: the tick in which the penguin enters a goal cell and fishCollected
\* reaches totalFish sets status to won, clears the slide's timer and leaves
\* the penguin on the goal cell; and status is won only while
\* fishCollected >= totalFish.
C2_WonOnLastGoal ==
  /\ [](status = "won" => fishCollected >= totalFish)
  /\ [][\A d \in Dirs :
          ( /\ Tick(d)
            /\ Inside(grid, Step(pos, d))
            /\ TileOf(grid, Step(pos, d)) = "G"
            /\ fishCollected + 1 >= totalFish )
          => /\ status' = "won"
             /\ TimerCleared
             /\ pos' = Step(pos, d)
             /\ fishCollected' = fishCollected + 1
       ]_vars

\* the winning tick has run: the penguin is on the cell the goal was on
C2_Witness ==
  /\ status = "won"
  /\ pos = Goal
  /\ TileOf(grid, pos) = "."
  /\ fishCollected = totalFish
  /\ TimersRunning = 0

\* a step that initialises the game: a level change, or handleRetry
Initialises == level' # level \/ (lastClick' = "retry" /\ game' # game)

\* C3: when only finitely many initialisations occur, every running slide
\* timer is eventually cleared: from any state with a timer running, a state
\* with no timer running is reached.
C3_SlideTerminates ==
  (<>[][~Initialises]_vars) => (TimersRunning > 0 ~> TimersRunning = 0)
\* C4: the penguin's position is a cell of the current grid and no wall.
C4_PosInGrid == Inside(grid, pos) /\ TileOf(grid, pos) # "X"

\* a timer of a 6 by 6 level has moved the penguin on the 7 by 7 grid
C4_Witness ==
  /\ GridSize = BaseSize + 1
  /\ TimersRunning > 0
  /\ moves = 0
  /\ pos # Start

\* C5: after an initialisation, and until a move is accepted, no tick changes
\* the position, the grid or the status: the penguin is on the start cell of
\* the fresh grid and the status is playing.
C5_NoTickAfterInit ==
  moves = 0 => /\ pos = StartOf(getLevelGrid(level))
               /\ grid = getLevelGrid(level)
               /\ status = "playing"

\* C6: a step that changes level leaves the game initialised from the fresh
\* grid of the new level.
C6_LevelReset ==
  [][level' # level =>
       /\ grid' = getLevelGrid(level')
       /\ pos' = Start
       /\ TileOf(grid', pos') = "P"
       /\ fishCollected' = 0
       /\ totalFish' = FishCount(grid')
       /\ isSliding' = FALSE
       /\ moves' = 0
       /\ status' = "playing"
    ]_vars

\* a level was entered while a slide of the level before was running
C6_Witness ==
  /\ level > 0
  /\ TimersRunning > 0
  /\ pos = Start
  /\ moves = 0
  /\ status = "playing"

\* C7: after RETRY or the refresh button the game is playing, the penguin on
\* the start cell, moves and fishCollected 0 and the goal tile in the grid.
C7_RetryResets ==
  lastClick = "retry" =>
    /\ status = "playing"
    /\ pos = Start
    /\ moves = 0
    /\ fishCollected = 0
    /\ FishCount(grid) = totalFish
    /\ TileOf(grid, Goal) = "G"
\* C8 (getLevelGrid returns the same grid for the same level) is not stated:
\* generate is an operator of the level, and two evaluations of it agree
\* whatever it computes.

Adjacent(p, q) ==
  (p.x = q.x /\ (p.y - q.y) \in {-1, 1}) \/ (p.y = q.y /\ (p.x - q.x) \in {-1, 1})
NonWall(g, p) == Inside(g, p) /\ TileOf(g, p) \in {"P", "G", "."}

\* the non-wall cells joined to the cells of frontier by 4-adjacent non-wall cells
RECURSIVE Flood(_, _, _)
Flood(g, seen, frontier) ==
  IF frontier = {} THEN seen
  ELSE LET all == seen \cup frontier
           nxt == { Step(p, d) : p \in frontier, d \in Dirs }
       IN  Flood(g, all, { q \in nxt : NonWall(g, q) } \ all)

\* the cells the obstacle loop of build 1 draws
ObstacleDraws(tb, lvl) ==
  LET size == LevelSize(lvl)
      r0   == carve1(tb, lvl).rndIndex
  IN  { [x |-> FloorMul(nextRandom(tb, lvl * SeedFactor, r0 + 2 * i), size),
         y |-> FloorMul(nextRandom(tb, lvl * SeedFactor, r0 + 2 * i + 1), size)]
        : i \in 0 .. size * 2 - 1 }

\* C9: in the grid of a path-carving generator the carved path runs between
\* (0,0) and (size-1,size-1) in 4-adjacent steps, every cell of it is a start,
\* goal or floor cell, and start and goal are joined by non-wall cells.
C9_PathOpen ==
  version \in {1, 2} =>
    LET path == carvedPath(level)
    IN  /\ grid = getLevelGrid(level)
        /\ {path[1], path[Len(path)]} = {Start, Goal}
        /\ \A k \in 1 .. Len(path) : NonWall(grid, path[k])
        /\ \A k \in 1 .. Len(path) - 1 : Adjacent(path[k], path[k + 1])
        /\ Goal \in Flood(grid, {}, {Start})

\* build 1 drew an obstacle on an inner cell of the path and left it floor,
\* in a grid that has obstacles
C9_Witness ==
  /\ version = 1
  /\ \E c \in ObstacleDraws(salt, level) :
        /\ isOnPath(carvedPath(level), c.x, c.y)
        /\ TileOf(grid, c) = "."
  /\ \E c \in ObstacleDraws(salt, level) : TileOf(grid, c) = "X"

\* state.current and status right after the initialisation on grid g
Fresh(g) ==
  [pos |-> StartOf(g), grid |-> g, isSliding |-> FALSE, fishCollected |-> 0,
   totalFish |-> FishCount(g), status |-> "playing", cleared |-> FALSE]

\* the ticks of one slide, to the tick that clears its timer
RECURSIVE slideRun(_, _, _)
slideRun(s, d, fuel) ==
  LET r == slideStep(s, d)
  IN  IF r.cleared \/ fuel = 0 THEN r ELSE slideRun(r, d, fuel - 1)

\* an accepted handleMove(d) and its slide, with no other timer running
moveResult(s, d) ==
  [slideRun([s EXCEPT !.isSliding = TRUE], d, Cardinality(DOMAIN s.grid))
     EXCEPT !.cleared = FALSE]

\* what sequences of accepted moves reach
RECURSIVE Reach(_, _)
Reach(seen, frontier) ==
  IF frontier = {} THEN seen
  ELSE LET all == seen \cup frontier
           acc == { s \in frontier : ~s.isSliding /\ s.status = "playing" }
       IN  Reach(all, { moveResult(s, d) : s \in acc, d \in Dirs } \ all)

Winnable(g) == \E s \in Reach({}, {Fresh(g)}) : s.status = "won"

\* C10: from the initial state of a level of build 2, under every value
\* table, some sequence of accepted moves ends with status won.
C10_CorridorWinnable ==
  ( /\ version = 2
    /\ moves = 0
    /\ TimersRunning = 0
    /\ grid = getLevelGrid(level)
    /\ pos = Start
    /\ status = "playing"
    /\ ~isSliding )
  => /\ Winnable(grid)
     /\ \A tb \in 0 .. MaxSalt : Winnable(Layouts[2][tb][level])

\* a corridor of build 2 has been won in three moves or more
C10_Witness ==
  /\ version = 2
  /\ status = "won"
  /\ moves >= 3
  /\ TimersRunning = 0
  /\ pos = Goal

\* C11: in build 0 the tick whose next cell lies outside the grid sets status
\* to lost, clears its timer (no later tick of that slide runs), sets isSliding
\* to false and leaves the penguin where it is, on a cell of the grid.
C11_OutOfBoundsLoses ==
  [][\A d \in Dirs :
       (Tick(d) /\ version = 0 /\ ~Inside(grid, Step(pos, d)))
       => /\ status' = "lost"
          /\ timers'[d] = timers[d] - 1
          /\ TimerCleared
          /\ isSliding' = FALSE
          /\ pos' = pos
          /\ Inside(grid', pos')
    ]_vars

\* build 0 has lost at the edge of the grid
C11_Witness ==
  /\ version = 0
  /\ status = "lost"
  /\ TimersRunning = 0
  /\ ~isSliding
  /\ dir \in Dirs
  /\ Inside(grid, pos)
  /\ ~Inside(grid, Step(pos, dir))

\* C12: in build 2 the tick whose next cell lies outside the grid clears its
\* timer, sets isSliding to false and changes neither the position nor the
\* status; when the status was playing, the next move is accepted.
C12_OutOfBoundsIsWall ==
  [][\A d \in Dirs :
       (Tick(d) /\ version = 2 /\ ~Inside(grid, Step(pos, d)))
       => /\ timers'[d] = timers[d] - 1
          /\ TimerCleared
          /\ isSliding' = FALSE
          /\ pos' = pos
          /\ grid' = grid
          /\ status' = status
          /\ status = "playing" => ~(isSliding' \/ closureStatus' # "playing")
    ]_vars

\* the first slide of a corridor level was stopped by the edge of the grid
C12_Witness ==
  /\ version = 2
  /\ status = "playing"
  /\ moves = 1
  /\ TimersRunning = 0
  /\ ~isSliding
  /\ dir \in Dirs
  /\ ~Inside(grid, Step(pos, dir))

\* C13: a call of handleMove while isSliding is true or the status is won or
\* lost changes neither position, direction, moves, grid nor status, and
\* starts no timer.
C13_MoveIgnored ==
  [][\A d \in Dirs :
       (KeyDown(d) /\ (isSliding \/ status # "playing"))
       => /\ pos' = pos
          /\ dir' = dir
          /\ moves' = moves
          /\ grid' = grid
          /\ status' = status
          /\ timers' = timers
    ]_vars

\* handleMove(d) passes its guard and starts a slide
Accepted(d) == KeyDown(d) /\ ~isSliding /\ closureStatus = "playing"

\* C14: moves is 0 after every initialisation, grows by exactly 1 with every
\* accepted move, is left alone by every timer tick, and changes in no other
\* step.
C14_MovesCountAccepted ==
  [][ /\ Initialises => moves' = 0
      /\ \A d \in Dirs : Tick(d) => moves' = moves
      /\ \A d \in Dirs : Accepted(d) => moves' = moves + 1
      /\ moves' # moves => Initialises \/ \E d \in Dirs : Accepted(d)
    ]_vars

\* a move against a wall next to the start cell was counted: the slide covered
\* no cell
C14_Witness ==
  /\ moves = 1
  /\ pos = Start
  /\ grid = getLevelGrid(level)
  /\ TimersRunning = 0
  /\ ~isSliding
  /\ status = "playing"
  /\ dir \in Dirs
  /\ Inside(grid, Step(pos, dir))
  /\ TileOf(grid, Step(pos, dir)) = "X"

\* the cells the wall loop of build 0 draws
WallDraws(tb, lvl) ==
  LET size == LevelSize(lvl)
  IN  { [x |-> FloorMul(pseudoRandom(tb, lvl * SeedFactor + i), size),
         y |-> FloorMul(pseudoRandom(tb, lvl * SeedFactor + i * 2), size)]
        : i \in 0 .. size * 2 - 1 }

\* C15: the grid of every level, in every build and under every value table,
\* is a size by size square of start, goal, floor and wall cells with its one
\* start tile at (0,0) and its one goal tile at (size-1,size-1); totalFish is 1
\* after the initialisation.
C15_GridShape ==
  LET size == LevelSize(level)
      idx  == 0 .. size - 1
  IN  /\ grid = getLevelGrid(level)
      /\ DOMAIN grid = idx
      /\ \A yy \in idx : DOMAIN grid[yy] = idx
      /\ \A yy \in idx : \A xx \in idx : grid[yy][xx] \in {"P", "G", ".", "X"}
      /\ { c \in idx \X idx : grid[c[2]][c[1]] = "P" } = { << 0, 0 >> }
      /\ { c \in idx \X idx : grid[c[2]][c[1]] = "G" } = { << size - 1, size - 1 >> }
      /\ pos = Start
      /\ totalFish = 1

\* the wall loop of build 0 drew a wall on the start or the goal cell, and the
\* grid has walls
C15_Witness ==
  /\ version = 0
  /\ \E c \in WallDraws(salt, level) : c \in {Start, Goal}
  /\ \E c \in WallDraws(salt, level) : TileOf(grid, c) = "X"

\* C16: at most one slide timer runs at any time.
C16_OneTimer == TimersRunning <= 1

\* C17: while status is won or lost, a step that does not initialise the game
\* changes neither the position, the grid, fishCollected nor the status.
C17_TerminalStable ==
  [][(status \in {"won", "lost"} /\ ~Initialises)
       => /\ pos' = pos
          /\ grid' = grid
          /\ fishCollected' = fishCollected
          /\ status' = status
    ]_vars

\* C18: fishCollected plus the goal tiles in the grid is totalFish, and
\* fishCollected is at most totalFish; the tick that enters a goal cell counts
\* it once and leaves a floor cell there.
C18_GoalsConserved ==
  /\ [](fishCollected + FishCount(grid) = totalFish /\ fishCollected <= totalFish)
  /\ [][\A d \in Dirs :
          ( /\ Tick(d)
            /\ Inside(grid, Step(pos, d))
            /\ TileOf(grid, Step(pos, d)) = "G" )
          => /\ fishCollected' = fishCollected + 1
             /\ TileOf(grid', Step(pos, d)) = "."
             /\ FishCount(grid') = FishCount(grid) - 1
       ]_vars

\* the goal of a level entered later was collected by a timer of the level
\* before: no move of this level was made
C18_Witness ==
  /\ level > 0
  /\ moves = 0
  /\ fishCollected = 1
  /\ totalFish = 1
  /\ FishCount(grid) = 0
  /\ TileOf(grid, Goal) = "."

\* C19: when status is playing and no timer runs, isSliding is false and the
\* handleMove in use has status playing: the next move request passes the
\* guard.
C19_InputNotBlocked ==
  (status = "playing" /\ TimersRunning = 0)
    => (~isSliding /\ closureStatus = "playing")

\* on a later level a move was made and its slide has ended away from the
\* start cell: input is open again
C19_Witness ==
  /\ status = "playing"
  /\ TimersRunning = 0
  /\ ~isSliding
  /\ level > 0
  /\ moves >= 1
  /\ pos # Start
  /\ dir \in Dirs

\* C20: in build 2 the status is never lost.
C20_NeverLost == version = 2 => status \in {"playing", "won"}

\* build 2, two moves or more into a level: the penguin stands at the edge of
\* the grid it has just slid against
C20_Witness ==
  /\ version = 2
  /\ moves >= 2
  /\ TimersRunning = 0
  /\ ~isSliding
  /\ dir \in Dirs
  /\ pos # Start
  /\ ~Inside(grid, Step(pos, dir))
====
